---- MODULE Spec2Model ----
(***************************************************************************)
(* Order lifecycle of the dropship server (src/server.js): the orders      *)
(* table, the payment gateway's view of each payment intent, and the       *)
(* request handlers create-payment-intent, place-order, webhook and order  *)
(* lookup.  Every await of a handler is a separate step, so that handlers  *)
(* of requests in flight interleave the way the Node event loop lets them. *)
(***************************************************************************)
EXTENDS Integers, Sequences, FiniteSets, TLC

(* ------------------------------ bounds -------------------------------- *)
\* number of HTTP requests the server receives in one run when they overlap
MaxReqs == 3
\* number of HTTP requests in one run when each is answered before the next
MaxSerialReqs == 4
\* number of payment intent ids the gateway can hand out
MaxPids == 2
\* number of HTTP requests in one run of the specifications that look at one
\* handler from arrival to answer
MaxFewReqs == 2

Reqs == 1..MaxSerialReqs
PIDS == 1..MaxPids

(* --------------------------- JavaScript values ------------------------ *)
\* undefined / null / SQL NULL of an optional value; Some(v) is a present one
None == <<>>
Some(v) == <<v>>
Val(o) == o[1]
\* o.k as a column value: NULL when the object has no property k
Prop(o, k) == IF k \in DOMAIN o THEN Some(o[k]) ELSE None
\* JavaScript's (o.k || d) for a numeric property
NumOr(o, k, d) == IF k \in DOMAIN o /\ o[k] # 0 THEN o[k] ELSE d

\* the keys of the sequence keys that object o has, in that order
PresentKeys(o, keys) == SelectSeq(keys, LAMBDA k : k \in DOMAIN o)
\* JSON.stringify of an object: the pairs of the properties it has
JSONstringifyObj(o, keys) ==
  [json |-> "object",
   body |-> [i \in DOMAIN PresentKeys(o, keys) |->
               <<PresentKeys(o, keys)[i], o[PresentKeys(o, keys)[i]]>>]]
\* JSON.parse of an object text
JSONparseObj(t) ==
  [k \in {t.body[i][1] : i \in DOMAIN t.body} |->
     t.body[CHOOSE i \in DOMAIN t.body : t.body[i][1] = k][2]]

ItemKeys == <<"id", "price", "quantity", "supplierCost">>
\* JSON.stringify / JSON.parse of the cartItems array
JSONstringifyItems(items) ==
  [json |-> "array",
   body |-> [i \in DOMAIN items |-> JSONstringifyObj(items[i], ItemKeys)]]
JSONparseItems(t) == [i \in DOMAIN t.body |-> JSONparseObj(t.body[i])]

(* ------------------------------ inputs -------------------------------- *)
\* one line item sold above its supplier cost
CartGood == << [id |-> "a", price |-> 5, quantity |-> 2, supplierCost |-> 2] >>
\* one line item whose supplier cost exceeds its price
CartLoss == << [id |-> "b", price |-> 1, quantity |-> 1, supplierCost |-> 2] >>
Carts == {CartGood, CartLoss}

CustAnn == [name |-> "ann", email |-> "ann@example.com",
            address |-> [line1 |-> "1 Main St"]]
\* a customer who gave neither an email address nor a shipping address
CustBob == [name |-> "bob"]
Customers == {CustAnn, CustBob}

\* the request bodies { cartItems, customer } the clients send
Bodies ==
  {[cartItems |-> CartGood, customer |-> Some(CustAnn)],
   [cartItems |-> CartLoss, customer |-> Some(CustBob)]}
\* a body without the customer property
NoCustomer == [cartItems |-> CartGood, customer |-> None]
\* a body with an empty cart
EmptyCart == [cartItems |-> <<>>, customer |-> Some(CustAnn)]

\* the carts the totals are looked at for: one line of two units, a line
\* with quantity 0, and two lines
CartTwoUnits == << [id |-> "c", price |-> 1999, quantity |-> 2, supplierCost |-> 800] >>
CartZeroQuantity == << [id |-> "z", price |-> 5, quantity |-> 0, supplierCost |-> 2] >>
CartTwoLines ==
  << [id |-> "a", price |-> 5, quantity |-> 2, supplierCost |-> 2],
     [id |-> "b", price |-> 1, quantity |-> 3, supplierCost |-> 2] >>
CartBodies ==
  {[cartItems |-> c, customer |-> Some(CustAnn)] :
     c \in {CartTwoUnits, CartZeroQuantity, CartTwoLines}}

(* --------------------------- pure functions --------------------------- *)
RECURSIVE Sum(_)
\* Array.prototype.reduce((s,x) => s + x, 0) over the per-item amounts
Sum(xs) == IF xs = <<>> THEN 0 ELSE Head(xs) + Sum(Tail(xs))

\* create-payment-intent: total and supplierTotal, quantity defaulting to 1
IntentTotal(items) ==
  Sum([i \in DOMAIN items |-> items[i].price * NumOr(items[i], "quantity", 1)])
IntentSupplierTotal(items) ==
  Sum([i \in DOMAIN items |->
         NumOr(items[i], "supplierCost", 0) * NumOr(items[i], "quantity", 1)])
\* place-order backfill: total and supplierTotal, quantity as given
BackfillTotal(items) ==
  Sum([i \in DOMAIN items |-> items[i].price * items[i].quantity])
BackfillSupplierTotal(items) ==
  Sum([i \in DOMAIN items |-> NumOr(items[i], "supplierCost", 0) * items[i].quantity])

ResponseKeys == <<"success", "method", "data", "note", "error">>
\* the supplier dispatch: DSers API first, supplier email as the fallback.  cfg
\* is the process configuration, apiOk / mailOk what the two channels answer.
\* Both channels read customer.address.line1 inside their try block, so a
\* customer object without an address makes either attempt throw and be caught.
placeOrderWithSupplier(cfg, customer, apiOk, mailOk) ==
  IF cfg.dsers /\ "address" \in DOMAIN customer /\ apiOk
    THEN [success |-> TRUE, method |-> "dsers", data |-> "created"]
  ELSE IF cfg.supplierEmail
    THEN IF "address" \in DOMAIN customer /\ mailOk
           THEN [success |-> TRUE, method |-> "email", note |-> "sent to supplier email"]
           ELSE [success |-> FALSE, error |-> "email error"]
  ELSE [success |-> FALSE, error |-> "No DSERS_API_KEY or SUPPLIER_EMAIL configured"]

\* the status written as 'processed' whatever the supplier answered
TerminalStatusAlwaysProcessed(supplierResponse) == "processed"

\* supplierResponse?.success ? 'processed' : 'failed'
TerminalStatus(supplierResponse) ==
  IF supplierResponse.success THEN "processed" ELSE "failed"

\* sendCustomerEmail's result: TRUE when the mail was handed to the transport
sendCustomerEmail(customer, mailOk) == "email" \in DOMAIN customer /\ mailOk

(* ----------------------------- order store ---------------------------- *)
\* the row createDraftOrder inserts; id is the AUTOINCREMENT rowid
DraftRow(id, now, paymentIntentId, cartItems, customer, total, supplierTotal, profit) ==
  [id |-> id,
   local_order_id |-> now,
   payment_intent_id |-> paymentIntentId,
   status |-> "pending",
   customer_name |-> Prop(customer, "name"),
   customer_email |-> Prop(customer, "email"),
   customer_address |->
     IF "address" \in DOMAIN customer
       THEN JSONstringifyObj(customer.address, <<"line1">>)
       ELSE JSONstringifyObj(<<>>, <<"line1">>),
   items_json |-> JSONstringifyItems(cartItems),
   total_cents |-> total,
   supplier_share_cents |-> supplierTotal,
   profit_cents |-> profit,
   supplier_response |-> None,
   created_at |-> now,
   processed_at |-> None]

\* the column declared without UNIQUE
NoUniqueConstraint(tbl, paymentIntentId) == FALSE

\* payment_intent_id TEXT UNIQUE: the INSERT is refused when the id is taken
UniqueViolation(tbl, paymentIntentId) ==
  \E i \in DOMAIN tbl : tbl[i].payment_intent_id = paymentIntentId

\* SELECT * FROM orders WHERE payment_intent_id=?  (the rows db.get may return)
RowsByPayment(tbl, paymentIntentId) ==
  {tbl[i] : i \in {j \in DOMAIN tbl : tbl[j].payment_intent_id = paymentIntentId}}
\* SELECT * FROM orders WHERE local_order_id=?
RowsByLocalId(tbl, localId) ==
  {tbl[i] : i \in {j \in DOMAIN tbl : tbl[j].local_order_id = localId}}

\* an UPDATE that sets supplier_response and leaves status and processed_at
\* to a second statement
MarkTerminalResponseOnly(tbl, paymentIntentId, supplierResponse, now) ==
  [i \in DOMAIN tbl |->
     IF tbl[i].payment_intent_id = paymentIntentId
       THEN [tbl[i] EXCEPT
               !.supplier_response = Some(JSONstringifyObj(supplierResponse, ResponseKeys))]
       ELSE tbl[i]]

\* the UPDATE without its WHERE clause
MarkTerminalEveryRow(tbl, paymentIntentId, supplierResponse, now) ==
  [i \in DOMAIN tbl |->
     [tbl[i] EXCEPT
        !.supplier_response = Some(JSONstringifyObj(supplierResponse, ResponseKeys)),
        !.status = TerminalStatus(supplierResponse),
        !.processed_at = Some(now)]]

\* UPDATE orders SET supplier_response=?, status=?, processed_at=datetime("now")
\*   WHERE payment_intent_id=?
MarkTerminal(tbl, paymentIntentId, supplierResponse, now) ==
  [i \in DOMAIN tbl |->
     IF tbl[i].payment_intent_id = paymentIntentId
       THEN [tbl[i] EXCEPT
               !.supplier_response = Some(JSONstringifyObj(supplierResponse, ResponseKeys)),
               !.status = TerminalStatus(supplierResponse),
               !.processed_at = Some(now)]
       ELSE tbl[i]]

\* the short-circuit keyed on status = 'processed' instead
AlreadyProcessedByStatus(row) == row.status = "processed"

\* if(saved.supplier_response): a non-empty text column is truthy
AlreadyProcessed(row) == row.supplier_response # None

\* the customer the webhook rebuilds from the row
RowCustomer(row) ==
  LET base == [name |-> Val(row.customer_name),
               address |-> JSONparseObj(row.customer_address)]
  IN IF row.customer_email = None THEN base
     ELSE [name |-> base.name, address |-> base.address,
           email |-> Val(row.customer_email)]

(* -------------------------------- state ------------------------------- *)
VARIABLES
  dbReady,      \* the startup block has opened the database and created the tables
  config,       \* DSERS_API_KEY / SUPPLIER_EMAIL present in the environment
  now,          \* Date.now(), in milliseconds
  intents,      \* the gateway's status of each payment intent
  orders,       \* the orders table, in rowid order
  reqs,         \* the requests: position in the handler and its local variables
  dispatches,   \* per paymentId: calls of placeOrderWithSupplier
  emailCalls,   \* per paymentId: calls of sendCustomerEmail
  emailsSent    \* per paymentId: confirmation mails the transport accepted

vars == <<dbReady, config, now, intents, orders, reqs, dispatches, emailCalls, emailsSent>>

Idle ==
  [kind |-> "none", pc |-> "idle", pid |-> 0, cartItems |-> <<>>, customer |-> None,
   saved |-> None, local_order_id |-> 0, supplierResponse |-> None, res |-> None]

\* res.status(code).json(body): the handler is over
Respond(r, code, body) ==
  [reqs EXCEPT ![r].pc = "done", ![r].saved = None, ![r].supplierResponse = None,
               ![r].local_order_id = 0,
               ![r].res = Some([status |-> code, body |-> body])]

InFlight(r) == reqs[r].pc \notin {"idle", "done"}
\* request r arrives; serial: it arrives only once every earlier one was answered
Arrives(r, serial) ==
  /\ reqs[r].pc = "idle"
  /\ r > 1 => reqs[r - 1].pc # "idle"
  /\ IF serial THEN \A q \in Reqs : ~InFlight(q) ELSE r <= MaxReqs

\* the process as loaded: configuration read, no request received yet
Loaded ==
  /\ config \in [dsers : BOOLEAN, supplierEmail : BOOLEAN]
  /\ now = 1
  /\ intents = [p \in PIDS |-> "none"]
  /\ orders = <<>>
  /\ reqs = [r \in Reqs |-> Idle]
  /\ dispatches = [p \in PIDS |-> 0]
  /\ emailCalls = [p \in PIDS |-> 0]
  /\ emailsSent = [p \in PIDS |-> 0]

\* the server once its startup block has completed
Init == dbReady = TRUE /\ Loaded

(* ------------------------- the payment gateway ------------------------ *)
\* the customer completes the payment on the gateway's side
PaymentSucceeds(p) ==
  /\ intents[p] = "requires_payment_method"
  /\ intents' = [intents EXCEPT ![p] = "succeeded"]
  /\ UNCHANGED <<dbReady, config, now, orders, reqs, dispatches, emailCalls, emailsSent>>

\* the payment is abandoned and the gateway cancels the intent
PaymentCanceled(p) ==
  /\ intents[p] = "requires_payment_method"
  /\ intents' = [intents EXCEPT ![p] = "canceled"]
  /\ UNCHANGED <<dbReady, config, now, orders, reqs, dispatches, emailCalls, emailsSent>>

(* ---------------------- POST /api/create-payment-intent --------------- *)
\* ids the gateway has not handed out, less those being created right now
FreshPids == {p \in PIDS : intents[p] = "none"}
Creating == {q \in Reqs : reqs[q].kind = "intent" /\ reqs[q].pc = "create"}

\* the request arrives: cartItems must be a non-empty array; the totals are
\* computed and stripe.paymentIntents.create is awaited
StartIntent(r, cartItems, customer, serial) ==
  /\ Arrives(r, serial)
  /\ IF cartItems = <<>>
       THEN reqs' = [Respond(r, 400, [error |-> "cartItems required"])
                       EXCEPT ![r].kind = "intent"]
       ELSE /\ Cardinality(Creating) < Cardinality(FreshPids)
            /\ reqs' = [reqs EXCEPT ![r].kind = "intent", ![r].pc = "create",
                                    ![r].cartItems = cartItems,
                                    ![r].customer = customer]
  /\ UNCHANGED <<dbReady, config, now, intents, orders, dispatches, emailCalls, emailsSent>>

\* the gateway creates the intent; the round trip takes at least a millisecond
IntentCreate(r) ==
  /\ reqs[r].kind = "intent" /\ reqs[r].pc = "create"
  /\ LET p == CHOOSE q \in FreshPids : \A o \in FreshPids : q <= o IN
       /\ intents' = [intents EXCEPT ![p] = "requires_payment_method"]
       /\ reqs' = [reqs EXCEPT ![r].pc = "draft", ![r].pid = p]
  /\ now' = now + 1
  /\ UNCHANGED <<dbReady, config, orders, dispatches, emailCalls, emailsSent>>

\* createDraftOrder with INSERT OR REPLACE
createDraftOrReplace(tbl, clock, paymentIntentId, cartItems, customer, total, supplierTotal) ==
  [threw |-> FALSE, local_order_id |-> clock,
   table |->
     IF UniqueViolation(tbl, paymentIntentId)
       THEN [i \in DOMAIN tbl |->
               IF tbl[i].payment_intent_id = paymentIntentId
                 THEN DraftRow(i, clock, paymentIntentId, cartItems, customer, total,
                               supplierTotal, total - supplierTotal)
                 ELSE tbl[i]]
       ELSE Append(tbl, DraftRow(Len(tbl) + 1, clock, paymentIntentId, cartItems,
                                 customer, total, supplierTotal, total - supplierTotal))]

\* createDraftOrder, shared by create-payment-intent and place-order: the id is
\* 'o'+Date.now() and the INSERT either adds the row or is refused by the UNIQUE
\* constraint, which makes the call throw and leaves the table as it was
createDraftOrder(tbl, clock, paymentIntentId, cartItems, customer, total, supplierTotal) ==
  IF UniqueViolation(tbl, paymentIntentId)
    THEN [threw |-> TRUE, table |-> tbl, local_order_id |-> clock]
    ELSE [threw |-> FALSE, local_order_id |-> clock,
          table |-> Append(tbl, DraftRow(Len(tbl) + 1, clock, paymentIntentId,
                                         cartItems, customer, total,
                                         supplierTotal, total - supplierTotal))]

\* await createDraftOrder(...), then the response with the totals
IntentDraft(r) ==
  /\ reqs[r].kind = "intent" /\ reqs[r].pc = "draft"
  /\ dbReady
  /\ LET q == reqs[r]
         total == IntentTotal(q.cartItems)
         supplierTotal == IntentSupplierTotal(q.cartItems)
     IN IF q.customer = None
          THEN \* customer.name of undefined throws; the catch answers 500
               /\ reqs' = Respond(r, 500, [error |-> "TypeError"])
               /\ orders' = orders
          ELSE LET ins == createDraftOrder(orders, now, q.pid, q.cartItems,
                                           Val(q.customer), total, supplierTotal)
               IN /\ orders' = ins.table
                  /\ reqs' = IF ins.threw
                       THEN Respond(r, 500, [error |-> "SQLITE_CONSTRAINT"])
                       ELSE Respond(r, 200, [paymentIntentId |-> q.pid,
                                             total |-> total,
                                             profit |-> total - supplierTotal,
                                             supplierShare |-> supplierTotal])
  /\ UNCHANGED <<dbReady, config, now, intents, dispatches, emailCalls, emailsSent>>

(* --------------------------- POST /api/place-order -------------------- *)
\* the request arrives: cartItems, customer and paymentIntentId are required;
\* then stripe.paymentIntents.retrieve is awaited
StartPlace(r, p, cartItems, customer, serial) ==
  /\ Arrives(r, serial)
  /\ reqs' = IF customer = None
       THEN [Respond(r, 400, [error |-> "Required fields missing"])
               EXCEPT ![r].kind = "place", ![r].pid = p]
       ELSE [reqs EXCEPT ![r].kind = "place", ![r].pc = "retrieve", ![r].pid = p,
                         ![r].cartItems = cartItems, ![r].customer = customer]
  /\ UNCHANGED <<dbReady, config, now, intents, orders, dispatches, emailCalls, emailsSent>>

\* a check that refuses canceled payments only
NotSucceededCanceledOnly(status) == status = "canceled"

\* if(!intent || intent.status!=='succeeded'): the payment is not confirmed
NotSucceeded(status) == status # "succeeded"

\* the gateway answers (at least a millisecond later): an unknown id makes
\* retrieve throw, any status but 'succeeded' is refused
PlaceRetrieve(r) ==
  /\ reqs[r].kind = "place" /\ reqs[r].pc = "retrieve"
  /\ now' = now + 1
  /\ reqs' = CASE intents[reqs[r].pid] = "none" ->
                    Respond(r, 500, [error |-> "No such payment_intent"])
               [] NotSucceeded(intents[reqs[r].pid]) ->
                    Respond(r, 400, [error |-> "Payment not succeeded"])
               [] OTHER -> [reqs EXCEPT ![r].pc = "get"]
  /\ UNCHANGED <<dbReady, config, intents, orders, dispatches, emailCalls, emailsSent>>

\* if(saved.supplier_response) return 'Already processed' with the stored
\* result; otherwise go on to the supplier dispatch
PlaceCheck(r, row) ==
  IF AlreadyProcessed(row)
    THEN Respond(r, 200, [success |-> TRUE, message |-> "Already processed",
                          supplierResponse |-> JSONparseObj(Val(row.supplier_response))])
    ELSE [reqs EXCEPT ![r].pc = "dispatch", ![r].saved = Some(row)]

\* saved = SELECT ... WHERE payment_intent_id=?; no row: backfill next
PlaceGet(r) ==
  /\ reqs[r].kind = "place" /\ reqs[r].pc = "get"
  /\ dbReady
  /\ IF RowsByPayment(orders, reqs[r].pid) = {}
       THEN reqs' = [reqs EXCEPT ![r].pc = "draft"]
       ELSE \E row \in RowsByPayment(orders, reqs[r].pid) : reqs' = PlaceCheck(r, row)
  /\ UNCHANGED <<dbReady, config, now, intents, orders, dispatches, emailCalls, emailsSent>>

\* the defensive backfill: totals from the request's cart, createDraftOrder
PlaceDraft(r) ==
  /\ reqs[r].kind = "place" /\ reqs[r].pc = "draft"
  /\ dbReady
  /\ LET q == reqs[r]
         ins == createDraftOrder(orders, now, q.pid, q.cartItems, Val(q.customer),
                                 BackfillTotal(q.cartItems),
                                 BackfillSupplierTotal(q.cartItems))
     IN /\ orders' = ins.table
        /\ reqs' = IF ins.threw
             THEN Respond(r, 500, [error |-> "SQLITE_CONSTRAINT"])
             ELSE [reqs EXCEPT ![r].pc = "reget",
                               ![r].local_order_id = ins.local_order_id]
  /\ UNCHANGED <<dbReady, config, now, intents, dispatches, emailCalls, emailsSent>>

\* saved = SELECT ... WHERE local_order_id=?: any row with that id may come back
PlaceReget(r) ==
  /\ reqs[r].kind = "place" /\ reqs[r].pc = "reget"
  /\ dbReady
  /\ \E row \in RowsByLocalId(orders, reqs[r].local_order_id) :
       reqs' = PlaceCheck(r, row)
  /\ UNCHANGED <<dbReady, config, now, intents, orders, dispatches, emailCalls, emailsSent>>

\* await placeOrderWithSupplier(cartItems, customer, paymentIntentId)
PlaceDispatch(r) ==
  /\ reqs[r].kind = "place" /\ reqs[r].pc = "dispatch"
  /\ \E apiOk \in BOOLEAN, mailOk \in BOOLEAN :
       reqs' = [reqs EXCEPT ![r].pc = "email",
                  ![r].supplierResponse =
                     Some(placeOrderWithSupplier(config, Val(reqs[r].customer),
                                                 apiOk, mailOk))]
  /\ dispatches' = [dispatches EXCEPT ![reqs[r].pid] = @ + 1]
  /\ UNCHANGED <<dbReady, config, now, intents, orders, emailCalls, emailsSent>>

\* a handler that gives up when the customer email was not sent
AfterEmailGivesUp(r, sent) ==
  IF sent THEN [reqs EXCEPT ![r].pc = "update"]
  ELSE Respond(r, 500, [error |-> "email not sent"])

\* the handler after await sendCustomerEmail(...): the result is not looked at
AfterEmail(r, sent) == [reqs EXCEPT ![r].pc = "update"]

\* await sendCustomerEmail(customer, cartItems, paymentIntentId, saved.total_cents)
PlaceEmail(r) ==
  /\ reqs[r].kind = "place" /\ reqs[r].pc = "email"
  /\ \E mailOk \in BOOLEAN :
       LET sent == sendCustomerEmail(Val(reqs[r].customer), mailOk) IN
         /\ emailsSent' = [emailsSent EXCEPT ![reqs[r].pid] =
                             IF sent THEN @ + 1 ELSE @]
         /\ reqs' = AfterEmail(r, sent)
  /\ emailCalls' = [emailCalls EXCEPT ![reqs[r].pid] = @ + 1]
  /\ UNCHANGED <<dbReady, config, now, intents, orders, dispatches>>

\* the UPDATE of the row, then the response with the supplier's result
PlaceUpdate(r) ==
  /\ reqs[r].kind = "place" /\ reqs[r].pc = "update"
  /\ dbReady
  /\ orders' = MarkTerminal(orders, reqs[r].pid, Val(reqs[r].supplierResponse), now)
  /\ reqs' = Respond(r, 200, [success |-> TRUE,
                              supplierResponse |-> Val(reqs[r].supplierResponse)])
  /\ UNCHANGED <<dbReady, config, now, intents, dispatches, emailCalls, emailsSent>>

(* -------------------------------- POST /webhook ----------------------- *)
\* the gateway delivers payment_intent.succeeded for a payment that succeeded
StartWebhook(r, p, serial) ==
  /\ Arrives(r, serial)
  /\ intents[p] = "succeeded"
  /\ reqs' = [reqs EXCEPT ![r].kind = "webhook", ![r].pc = "get", ![r].pid = p]
  /\ UNCHANGED <<dbReady, config, now, intents, orders, dispatches, emailCalls, emailsSent>>

\* an event of any other type: logged and acknowledged
UnhandledEvent(r, serial) ==
  /\ Arrives(r, serial)
  /\ reqs' = [Respond(r, 200, [received |-> TRUE]) EXCEPT ![r].kind = "webhook"]
  /\ UNCHANGED <<dbReady, config, now, intents, orders, dispatches, emailCalls, emailsSent>>

\* res.json({ received: true }) after handleStripeEvent returned
Acknowledge(r) == Respond(r, 200, [received |-> TRUE])

\* a handler that treats an event without a row as an error
UnknownPaymentRejected(r) == Respond(r, 500, [error |-> "order not found"])

\* if(!row) return: the event names a payment the table does not hold
UnknownPayment(r) == Acknowledge(r)

\* handleStripeEvent: the row by payment_intent_id; no row, or a row that has a
\* supplier_response: return.  Otherwise cart and customer come from the row.
HookGet(r) ==
  /\ reqs[r].kind = "webhook" /\ reqs[r].pc = "get"
  /\ dbReady
  /\ IF RowsByPayment(orders, reqs[r].pid) = {}
       THEN reqs' = UnknownPayment(r)
       ELSE \E row \in RowsByPayment(orders, reqs[r].pid) :
              reqs' = IF AlreadyProcessed(row)
                THEN Acknowledge(r)
                ELSE [reqs EXCEPT ![r].pc = "dispatch", ![r].saved = Some(row),
                                  ![r].cartItems = JSONparseItems(row.items_json),
                                  ![r].customer = Some(RowCustomer(row))]
  /\ UNCHANGED <<dbReady, config, now, intents, orders, dispatches, emailCalls, emailsSent>>

HookDispatch(r) ==
  /\ reqs[r].kind = "webhook" /\ reqs[r].pc = "dispatch"
  /\ \E apiOk \in BOOLEAN, mailOk \in BOOLEAN :
       reqs' = [reqs EXCEPT ![r].pc = "email",
                  ![r].supplierResponse =
                     Some(placeOrderWithSupplier(config, Val(reqs[r].customer),
                                                 apiOk, mailOk))]
  /\ dispatches' = [dispatches EXCEPT ![reqs[r].pid] = @ + 1]
  /\ UNCHANGED <<dbReady, config, now, intents, orders, emailCalls, emailsSent>>

HookEmail(r) ==
  /\ reqs[r].kind = "webhook" /\ reqs[r].pc = "email"
  /\ \E mailOk \in BOOLEAN :
       LET sent == sendCustomerEmail(Val(reqs[r].customer), mailOk) IN
         /\ emailsSent' = [emailsSent EXCEPT ![reqs[r].pid] =
                             IF sent THEN @ + 1 ELSE @]
         /\ reqs' = AfterEmail(r, sent)
  /\ emailCalls' = [emailCalls EXCEPT ![reqs[r].pid] = @ + 1]
  /\ UNCHANGED <<dbReady, config, now, intents, orders, dispatches>>

\* a route that reports a failed supplier dispatch to the gateway
HookAnswerSurfacesFailure(r) ==
  IF Val(reqs[r].supplierResponse).success
    THEN Respond(r, 200, [received |-> TRUE])
    ELSE Respond(r, 500, [error |-> "supplier dispatch failed"])

\* the route's answer once the dispatch, the email and the UPDATE are done
HookAnswer(r) == Acknowledge(r)

\* the UPDATE of the row; the route then answers { received: true }
HookUpdate(r) ==
  /\ reqs[r].kind = "webhook" /\ reqs[r].pc = "update"
  /\ dbReady
  /\ orders' = MarkTerminal(orders, reqs[r].pid, Val(reqs[r].supplierResponse), now)
  /\ reqs' = HookAnswer(r)
  /\ UNCHANGED <<dbReady, config, now, intents, dispatches, emailCalls, emailsSent>>

(* ------------------------ GET /api/order/:paymentIntentId ------------- *)
OrderLookup(r, p, serial) ==
  /\ Arrives(r, serial)
  /\ dbReady
  /\ IF RowsByPayment(orders, p) = {}
       THEN reqs' = [Respond(r, 404, [error |-> "not found"])
                       EXCEPT ![r].kind = "lookup", ![r].pid = p]
       ELSE \E row \in RowsByPayment(orders, p) :
              reqs' = [Respond(r, 200, [order |-> row])
                         EXCEPT ![r].kind = "lookup", ![r].pid = p]
  /\ UNCHANGED <<dbReady, config, now, intents, orders, dispatches, emailCalls, emailsSent>>

(* ------------------------------- startup ------------------------------ *)
\* the server as app.listen leaves it: db is still undefined
InitBoot == dbReady = FALSE /\ Loaded

\* the startup block: db = await open(...), CREATE TABLE IF NOT EXISTS orders
DbInit ==
  /\ ~dbReady
  /\ dbReady' = TRUE
  /\ UNCHANGED <<config, now, intents, orders, reqs, dispatches, emailCalls, emailsSent>>

\* the handler's pending call is one on db
AtStoreCall(r) == reqs[r].pc \in {"get", "draft", "reget", "update"}

\* db.get / db.run while db is undefined throws a TypeError: the catch of
\* create-payment-intent and place-order answers 500 with the message, the
\* catch of the webhook route answers 500 without a body
StoreUndefined(r) ==
  /\ ~dbReady
  /\ AtStoreCall(r)
  /\ reqs' = IF reqs[r].kind = "webhook"
              THEN Respond(r, 500, [ended |-> TRUE])
              ELSE Respond(r, 500, [error |-> "TypeError"])
  /\ UNCHANGED <<dbReady, config, now, intents, orders, dispatches, emailCalls, emailsSent>>

\* the order lookup has no try/catch: its db.get on undefined rejects the
\* handler's promise and no response is written
LookupUndefined(r, p, serial) ==
  /\ Arrives(r, serial)
  /\ ~dbReady
  /\ reqs' = [reqs EXCEPT ![r] = [Idle EXCEPT !.kind = "lookup", !.pid = p,
                                              !.pc = "rejected"]]
  /\ UNCHANGED <<dbReady, config, now, intents, orders, dispatches, emailCalls, emailsSent>>

(* --------------------------- specifications --------------------------- *)
\* the steps of the requests in flight
Step(r) ==
  \/ IntentCreate(r) \/ IntentDraft(r)
  \/ PlaceRetrieve(r) \/ PlaceGet(r) \/ PlaceDraft(r) \/ PlaceReget(r)
  \/ PlaceDispatch(r) \/ PlaceEmail(r) \/ PlaceUpdate(r)
  \/ HookGet(r) \/ HookDispatch(r) \/ HookEmail(r) \/ HookUpdate(r)

\* a request arrives, its body one of bodies
ArrivalOf(r, bodies, serial) ==
  \/ \E b \in bodies \cup {NoCustomer, EmptyCart} :
       StartIntent(r, b.cartItems, b.customer, serial)
  \/ \E p \in PIDS, b \in bodies \cup {NoCustomer} :
       StartPlace(r, p, b.cartItems, b.customer, serial)
  \/ \E p \in PIDS : StartWebhook(r, p, serial)
  \/ UnhandledEvent(r, serial)
  \/ \E p \in PIDS : OrderLookup(r, p, serial)

Arrival(r, serial) == ArrivalOf(r, Bodies, serial)

\* requests overlap freely
Next ==
  \/ \E p \in PIDS : PaymentSucceeds(p)
  \/ \E p \in PIDS : PaymentCanceled(p)
  \/ \E r \in Reqs : Arrival(r, FALSE)
  \/ \E r \in Reqs : Step(r)

Spec == Init /\ [][Next]_vars

\* each request is answered before the next one arrives
NextSerial ==
  \/ \E p \in PIDS : PaymentSucceeds(p)
  \/ \E p \in PIDS : PaymentCanceled(p)
  \/ \E r \in Reqs : Arrival(r, TRUE)
  \/ \E r \in Reqs : Step(r)

SpecSerial == Init /\ [][NextSerial]_vars

\* the steps of request r that wait on nothing outside the process: the
\* sqlite calls, a dispatch with no supplier channel configured, an email
\* to a customer without an address
LocalStep(r) ==
  \/ IntentDraft(r)
  \/ PlaceGet(r) \/ PlaceDraft(r) \/ PlaceReget(r) \/ PlaceUpdate(r)
  \/ HookGet(r) \/ HookUpdate(r)
  \/ /\ ~config.dsers /\ ~config.supplierEmail
     /\ PlaceDispatch(r) \/ HookDispatch(r)
  \/ /\ reqs[r].customer # None /\ "email" \notin DOMAIN Val(reqs[r].customer)
     /\ PlaceEmail(r) \/ HookEmail(r)

\* a few requests, one at a time
NextLive ==
  \/ \E p \in PIDS : PaymentSucceeds(p)
  \/ \E p \in PIDS : PaymentCanceled(p)
  \/ \E r \in 1..MaxFewReqs : Arrival(r, TRUE)
  \/ \E r \in Reqs : Step(r)

\* a few requests, one at a time, with the carts of CartBodies
NextCarts ==
  \/ \E p \in PIDS : PaymentSucceeds(p)
  \/ \E p \in PIDS : PaymentCanceled(p)
  \/ \E r \in 1..MaxFewReqs : ArrivalOf(r, CartBodies, TRUE)
  \/ \E r \in Reqs : Step(r)

SpecCarts == Init /\ [][NextCarts]_vars

\* the server from app.listen on: requests arrive and overlap while the
\* startup block is still running
NextBoot ==
  \/ DbInit
  \/ \E p \in PIDS : PaymentSucceeds(p)
  \/ \E p \in PIDS : PaymentCanceled(p)
  \/ \E r \in 1..MaxFewReqs : Arrival(r, FALSE)
  \/ \E r \in 1..MaxFewReqs, p \in PIDS : LookupUndefined(r, p, FALSE)
  \/ \E r \in Reqs : Step(r)
  \/ \E r \in Reqs : StoreUndefined(r)

SpecBoot == InitBoot /\ [][NextBoot]_vars

\* the event loop runs every continuation that is ready; a call to Stripe,
\* to the supplier API or to the mail transport may never return
SpecLive ==
  /\ Init /\ [][NextLive]_vars
  /\ \A r \in 1..MaxFewReqs : WF_vars(LocalStep(r))

(* ------------------------------ properties ---------------------------- *)
\* the response of an answered request
Res(r) == Val(reqs[r].res)
Answered(r) == reqs[r].pc = "done"
\* request r was answered with the error message msg
HasError(r, msg) ==
  Answered(r) /\ "error" \in DOMAIN Res(r).body /\ Res(r).body.error = msg
\* no request is in flight
Quiescent == \A r \in Reqs : ~InFlight(r)

\* C1: for every paymentId, under any interleaving of confirmations and
\* webhooks, placeOrderWithSupplier runs at most once and sendCustomerEmail
\* runs at most once.
C1_AtMostOnce == \A p \in PIDS : dispatches[p] <= 1 /\ emailCalls[p] <= 1

\* a confirmation of p that got past the field check and the gateway check
Verified(r, p) ==
  /\ reqs[r].kind = "place" /\ reqs[r].pid = p /\ Answered(r)
  /\ ~HasError(r, "Required fields missing")
  /\ ~HasError(r, "Payment not succeeded")
  /\ ~HasError(r, "No such payment_intent")
\* what non-overlapping calls leave behind once a confirmation of a succeeded
\* payment was made: one dispatch, one sendCustomerEmail call, and every
\* confirmation answered 200 with the stored supplier result, at most one of
\* them not as 'Already processed'
SerialOutcome(p) ==
  /\ dispatches[p] = 1
  /\ emailCalls[p] = 1
  /\ \A r \in Reqs : Verified(r, p) =>
       /\ Res(r).status = 200
       /\ \A row \in RowsByPayment(orders, p) :
            /\ row.supplier_response # None
            /\ Res(r).body.supplierResponse = JSONparseObj(Val(row.supplier_response))
  /\ Cardinality({r \in Reqs : Verified(r, p)
                                /\ "message" \notin DOMAIN Res(r).body}) <= 1

\* C2 as stated: after non-overlapping confirmations and webhooks of a succeeded
\* payment, at least one of them a confirmation, there was exactly one supplier
\* dispatch and exactly one customer email, and every later confirmation
\* returned the stored supplierResponse without side effect.
C2_ExactlyOneEmail ==
  Quiescent =>
    \A p \in PIDS : (\E r \in Reqs : Verified(r, p)) =>
       SerialOutcome(p) /\ emailsSent[p] = 1

\* C2 amended: exactly one supplier dispatch and exactly one call of
\* sendCustomerEmail, which sends at most one email (none when the customer has
\* no email address or the transport refuses it); every later confirmation
\* returns the stored supplierResponse without side effect.
C2_ExactlyOnceSerial ==
  Quiescent =>
    \A p \in PIDS : (\E r \in Reqs : Verified(r, p)) =>
       SerialOutcome(p) /\ emailsSent[p] <= 1

\* a failed dispatch was recorded, and a second confirmation and a webhook of
\* the same payment were answered from the stored result
C2_Witness ==
  /\ Quiescent
  /\ \E p \in PIDS, r1, r2, r3 \in Reqs :
       /\ r1 # r2
       /\ Verified(r1, p) /\ Verified(r2, p)
       /\ reqs[r3].kind = "webhook" /\ reqs[r3].pid = p /\ Answered(r3)
       /\ "message" \in DOMAIN Res(r2).body
       /\ ~Res(r2).body.supplierResponse.success
       /\ dispatches[p] = 1

\* request r leaves the gateway check of place-order in this step
LeavesRetrieve(r) ==
  reqs[r].kind = "place" /\ reqs[r].pc = "retrieve" /\ reqs'[r].pc # "retrieve"

\* C3: a confirmation (with its required fields) whose payment the gateway does
\* not report as succeeded is answered 400 'Payment not succeeded' (an id the
\* gateway does not know makes the retrieve call fail, answered 500) and has no
\* effect: no dispatch, no email, no row created, and the row of that payment,
\* if any, is left pending with supplier_response NULL.
C3_NotConfirmedNoEffect ==
  [][\A r \in Reqs :
       (LeavesRetrieve(r) /\ intents[reqs[r].pid] # "succeeded") =>
          /\ reqs'[r].pc = "done"
          /\ IF intents[reqs[r].pid] = "none"
               THEN Val(reqs'[r].res).status = 500
               ELSE /\ Val(reqs'[r].res).status = 400
                    /\ Val(reqs'[r].res).body.error = "Payment not succeeded"
          /\ orders' = orders
          /\ dispatches' = dispatches
          /\ emailCalls' = emailCalls
          /\ emailsSent' = emailsSent
          /\ \A row \in RowsByPayment(orders', reqs[r].pid) :
               row.supplier_response = None /\ row.status = "pending"]_vars

\* a confirmation of a payment with a draft row was refused as not succeeded
C3_Witness ==
  \E r \in Reqs :
    /\ reqs[r].kind = "place"
    /\ HasError(r, "Payment not succeeded")
    /\ RowsByPayment(orders, reqs[r].pid) # {}

\* C4: a row's status only moves pending -> processed or pending -> failed;
\* once processed or failed it never changes again, under any interleaving.
C4_TerminalIsFinal ==
  [][\A i \in DOMAIN orders :
       /\ orders'[i].status # orders[i].status =>
            orders[i].status = "pending" /\ orders'[i].status \in {"processed", "failed"}
       /\ orders[i].status \in {"processed", "failed"} =>
            orders'[i].status = orders[i].status]_vars

\* a row as a reader may see it: supplier_response set only together with a
\* terminal status and processed_at
RowConsistent(row) ==
  row.supplier_response # None =>
    row.status \in {"processed", "failed"} /\ row.processed_at # None

\* C5: in every reachable state every row, every row a handler holds, and
\* every row an order lookup returned has supplier_response set only together
\* with a terminal status and processed_at.
C5_TerminalFieldsTogether ==
  /\ \A i \in DOMAIN orders : RowConsistent(orders[i])
  /\ \A r \in Reqs : reqs[r].saved # None => RowConsistent(Val(reqs[r].saved))
  /\ \A r \in Reqs :
       (reqs[r].kind = "lookup" /\ Answered(r) /\ Res(r).status = 200) =>
          RowConsistent(Res(r).body.order)

\* an order lookup returned a row whose supplier_response is set
C5_Witness ==
  \E r \in Reqs :
    /\ reqs[r].kind = "lookup" /\ Answered(r) /\ Res(r).status = 200
    /\ Res(r).body.order.supplier_response # None

\* C6: the table holds at most one row per paymentId in every reachable state.
C6_OneRowPerPayment ==
  \A p \in PIDS :
    Cardinality({i \in DOMAIN orders : orders[i].payment_intent_id = p}) <= 1

\* two confirmations both took the backfill branch: one inserted the row and
\* is still in flight or answered, the other was refused by the constraint
C6_Witness ==
  \E r1, r2 \in Reqs :
    /\ r1 # r2
    /\ reqs[r1].kind = "place" /\ reqs[r2].kind = "place"
    /\ reqs[r1].pid = reqs[r2].pid
    /\ HasError(r1, "SQLITE_CONSTRAINT")
    /\ reqs[r2].pc = "reget"

\* request r runs createDraftOrder in this step for a paymentId that has a row
RepeatsDraft(r) ==
  /\ reqs[r].pc = "draft" /\ reqs'[r].pc # "draft"
  /\ reqs[r].customer # None
  /\ RowsByPayment(orders, reqs[r].pid) # {}

\* C7: createDraftOrder called for a paymentId that already has a row leaves
\* exactly one row for it, every field as it was.
C7_FirstDraftKept ==
  [][\A r \in Reqs : RepeatsDraft(r) =>
       /\ RowsByPayment(orders', reqs[r].pid) = RowsByPayment(orders, reqs[r].pid)
       /\ Cardinality(RowsByPayment(orders', reqs[r].pid)) = 1
       /\ Len(orders') = Len(orders)]_vars

\* createDraftOrder was called with another cart and customer than the stored
\* row's, and the row still holds the first ones
C7_Witness ==
  \E r \in Reqs :
    /\ HasError(r, "SQLITE_CONSTRAINT")
    /\ \E row \in RowsByPayment(orders, reqs[r].pid) :
         /\ row.items_json # JSONstringifyItems(reqs[r].cartItems)
         /\ row.customer_name # Prop(Val(reqs[r].customer), "name")

\* C8: createDraftOrder called for a paymentId that already has a row raises
\* no error, so the calling request does not fail.
C8_RepeatDoesNotFail ==
  [][\A r \in Reqs : RepeatsDraft(r) =>
       ~(reqs'[r].pc = "done" /\ Val(reqs'[r].res).status = 500)]_vars

\* C9: no row with profit < 0 is ever stored.
C9_NoNegativeProfit == \A i \in DOMAIN orders : orders[i].profit_cents >= 0

\* C10: a row in a terminal state is processed exactly when its stored
\* supplier_response reports success, and failed otherwise.
C10_StatusMatchesResult ==
  \A i \in DOMAIN orders :
    /\ orders[i].supplier_response # None =>
         /\ orders[i].status = "processed" <=>
              JSONparseObj(Val(orders[i].supplier_response)).success
         /\ orders[i].status = "failed" <=>
              ~JSONparseObj(Val(orders[i].supplier_response)).success
    /\ orders[i].supplier_response = None => orders[i].status = "pending"

\* with both channels configured the API call and the email fallback failed,
\* and the row was recorded as failed
C10_Witness ==
  /\ config.dsers /\ config.supplierEmail
  /\ \E i \in DOMAIN orders :
       /\ orders[i].status = "failed"
       /\ orders[i].supplier_response # None
       /\ JSONparseObj(Val(orders[i].supplier_response)).error = "email error"

\* webhook request r leaves the row lookup of handleStripeEvent
HookLooksUp(r) ==
  reqs[r].kind = "webhook" /\ reqs[r].pc = "get" /\ reqs'[r].pc # "get"

\* C11: a payment_intent.succeeded event for a paymentId that has no row
\* changes no row, dispatches nothing, sends no email, and is answered
\* 200 { received: true }.
C11_UnknownPaymentNoOp ==
  [][\A r \in Reqs :
       (HookLooksUp(r) /\ RowsByPayment(orders, reqs[r].pid) = {}) =>
         /\ orders' = orders
         /\ dispatches' = dispatches
         /\ emailCalls' = emailCalls /\ emailsSent' = emailsSent
         /\ reqs'[r].pc = "done"
         /\ Val(reqs'[r].res) = [status |-> 200, body |-> [received |-> TRUE]]]_vars

\* a webhook for a succeeded payment without a row was answered, and the
\* payment still has no row, no dispatch and no email
C11_Witness ==
  \E r \in Reqs :
    /\ reqs[r].kind = "webhook" /\ Answered(r)
    /\ reqs[r].pid \in PIDS
    /\ intents[reqs[r].pid] = "succeeded"
    /\ RowsByPayment(orders, reqs[r].pid) = {}
    /\ dispatches[reqs[r].pid] = 0 /\ emailCalls[reqs[r].pid] = 0

\* webhook request r, past the lookup that found a pending row, takes a step
HookProcesses(r) ==
  /\ reqs[r].kind = "webhook"
  /\ reqs[r].pc \in {"dispatch", "email", "update"}
  /\ reqs'[r] # reqs[r]

\* every row of payment p in table tbl is in a terminal state
Terminal(tbl, p) ==
  \A row \in RowsByPayment(tbl, p) :
    /\ row.supplier_response # None
    /\ row.status \in {"processed", "failed"}
    /\ row.processed_at # None

\* C12: a webhook that found a pending row goes on from the dispatch to the
\* email to the UPDATE whatever the dispatch and the email returned, and is
\* then answered 200 { received: true } with the row in a terminal state;
\* no failure of the dispatch or the email is answered as an error.
C12_FailuresNotSurfaced ==
  [][\A r \in Reqs : HookProcesses(r) =>
       IF reqs'[r].pc = "done"
         THEN /\ reqs[r].pc = "update"
              /\ Val(reqs'[r].res) = [status |-> 200, body |-> [received |-> TRUE]]
              /\ RowsByPayment(orders', reqs[r].pid) # {}
              /\ Terminal(orders', reqs[r].pid)
         ELSE <<reqs[r].pc, reqs'[r].pc>> \in
                {<<"dispatch", "email">>, <<"email", "update">>}]_vars

\* a webhook alone handled payment p: the dispatch failed, the email call
\* sent nothing, the row is failed and the webhook was acknowledged
C12_Witness ==
  \E r \in Reqs :
    /\ reqs[r].kind = "webhook" /\ Answered(r) /\ reqs[r].pid \in PIDS
    /\ Res(r) = [status |-> 200, body |-> [received |-> TRUE]]
    /\ \A q \in Reqs : reqs[q].kind = "place" => reqs[q].pid # reqs[r].pid
    /\ dispatches[reqs[r].pid] = 1
    /\ emailCalls[reqs[r].pid] = 1 /\ emailsSent[reqs[r].pid] = 0
    /\ \E row \in RowsByPayment(orders, reqs[r].pid) : row.status = "failed"

\* webhook request r carries a verified payment_intent.succeeded event and
\* has not been answered
HookPending(r) == reqs[r].kind = "webhook" /\ InFlight(r)

\* C13: every verified webhook delivery is eventually acknowledged, also
\* when the supplier dispatch or the customer email it triggered never
\* returns.
C13_AckDoesNotWait ==
  \A r \in 1..MaxFewReqs : HookPending(r) ~> Answered(r)

\* the snapshot columns of a row
StoredSnapshot(row) ==
  [items_json |-> row.items_json,
   customer_name |-> row.customer_name,
   customer_email |-> row.customer_email,
   customer_address |-> row.customer_address]

\* the same columns of the cart and customer request r hands to
\* placeOrderWithSupplier and sendCustomerEmail
HandedSnapshot(r) ==
  LET customer == Val(reqs[r].customer) IN
  [items_json |-> JSONstringifyItems(reqs[r].cartItems),
   customer_name |-> Prop(customer, "name"),
   customer_email |-> Prop(customer, "email"),
   customer_address |->
     IF "address" \in DOMAIN customer
       THEN JSONstringifyObj(customer.address, <<"line1">>)
       ELSE JSONstringifyObj(<<>>, <<"line1">>)]

\* request r calls placeOrderWithSupplier or sendCustomerEmail
CallsDownstream(r) ==
  \/ reqs[r].pc = "dispatch" /\ reqs'[r].pc = "email"
  \/ reqs[r].pc = "email" /\ reqs'[r].pc = "update"

\* the webhook hands on what the row holds
WebhookUsesSnapshot ==
  [][\A r \in Reqs : (reqs[r].kind = "webhook" /\ CallsDownstream(r)) =>
       \A row \in RowsByPayment(orders, reqs[r].pid) :
         HandedSnapshot(r) = StoredSnapshot(row)]_vars

\* C14: the cart and the customer handed to the supplier dispatch and to the
\* customer email are those of the stored row of the paymentId, for a
\* webhook and for a confirmation alike, whatever the confirmation's
\* request carries.
C14_DispatchesSnapshot ==
  [][\A r \in Reqs : CallsDownstream(r) =>
       \A row \in RowsByPayment(orders, reqs[r].pid) :
         HandedSnapshot(r) = StoredSnapshot(row)]_vars

\* the columns of a row that are written by the INSERT only
Frozen(row) ==
  [id |-> row.id,
   local_order_id |-> row.local_order_id,
   payment_intent_id |-> row.payment_intent_id,
   customer_name |-> row.customer_name,
   customer_email |-> row.customer_email,
   customer_address |-> row.customer_address,
   items_json |-> row.items_json,
   total_cents |-> row.total_cents,
   supplier_share_cents |-> row.supplier_share_cents,
   profit_cents |-> row.profit_cents,
   created_at |-> row.created_at]

\* a request finishes the UPDATE for payment p
UpdatesPayment(p) ==
  \E r \in Reqs :
    reqs[r].pc = "update" /\ reqs'[r].pc = "done" /\ reqs[r].pid = p

\* C15: every step keeps every row and its local_order_id,
\* payment_intent_id, customer columns, items_json, total_cents,
\* supplier_share_cents and profit_cents; a row changes at all
\* (supplier_response, status, processed_at) only in the UPDATE step of a
\* request for the row's own paymentId.
C15_SnapshotImmutable ==
  [][\A i \in DOMAIN orders :
       /\ i \in DOMAIN orders'
       /\ Frozen(orders'[i]) = Frozen(orders[i])
       /\ orders'[i] # orders[i] => UpdatesPayment(orders[i].payment_intent_id)]_vars

\* the table holds a row that was brought to a terminal state next to a row
\* of another paymentId that is still pending
C15_Witness ==
  \E i, j \in DOMAIN orders :
    /\ orders[i].payment_intent_id # orders[j].payment_intent_id
    /\ orders[i].supplier_response # None /\ orders[i].processed_at # None
    /\ orders[j].supplier_response = None /\ orders[j].status = "pending"

\* the sum over the stored line items of field times quantity
LineSum(row, field) ==
  LET items == JSONparseItems(row.items_json) IN
  Sum([i \in DOMAIN items |-> items[i][field] * items[i].quantity])

\* every row has profit_cents = total_cents - supplier_share_cents
ProfitIsDifference ==
  \A i \in DOMAIN orders :
    orders[i].profit_cents = orders[i].total_cents - orders[i].supplier_share_cents

\* C16: every row has profit_cents = total_cents - supplier_share_cents,
\* total_cents the sum of price x quantity and supplier_share_cents the sum
\* of supplierCost x quantity over its line items, whichever handler
\* inserted it.
C16_TotalsFromCart ==
  \A i \in DOMAIN orders :
    /\ orders[i].profit_cents = orders[i].total_cents - orders[i].supplier_share_cents
    /\ orders[i].total_cents = LineSum(orders[i], "price")
    /\ orders[i].supplier_share_cents = LineSum(orders[i], "supplierCost")

\* request r holds the supplier's result and has not finished the UPDATE
AwaitsTerminal(r) == reqs[r].pc \in {"email", "update"}

\* C17: once the supplier dispatch has returned, whatever sendCustomerEmail
\* does (mail sent, send error, no address), the handler keeps the supplier's
\* result, runs the UPDATE, and the row's status and supplier_response are
\* those of the supplier's result alone.
C17_EmailFailureHarmless ==
  [][\A r \in Reqs : (AwaitsTerminal(r) /\ reqs'[r] # reqs[r]) =>
       IF reqs[r].pc = "email"
         THEN /\ reqs'[r].pc = "update"
              /\ reqs'[r].supplierResponse = reqs[r].supplierResponse
         ELSE /\ reqs'[r].pc = "done"
              /\ RowsByPayment(orders', reqs[r].pid) # {}
              /\ \A row \in RowsByPayment(orders', reqs[r].pid) :
                   /\ row.status = TerminalStatus(Val(reqs[r].supplierResponse))
                   /\ row.supplier_response =
                        Some(JSONstringifyObj(Val(reqs[r].supplierResponse),
                                              ResponseKeys))
                   /\ row.processed_at # None]_vars

\* a row was recorded as processed although the one sendCustomerEmail call
\* for its paymentId, to a customer with an email address, sent nothing
C17_Witness ==
  \E i \in DOMAIN orders :
    /\ orders[i].status = "processed" /\ orders[i].processed_at # None
    /\ orders[i].customer_email # None
    /\ emailCalls[orders[i].payment_intent_id] = 1
    /\ emailsSent[orders[i].payment_intent_id] = 0

\* C18: no two rows have the same local_order_id.
C18_LocalIdUnique ==
  \A i, j \in DOMAIN orders :
    i # j => orders[i].local_order_id # orders[j].local_order_id

\* place-order request r leaves the SELECT that follows its backfill
RereadsAfterBackfill(r) ==
  reqs[r].kind = "place" /\ reqs[r].pc = "reget" /\ reqs'[r].pc # "reget"

\* C19: after its backfill a place-order request goes on with a row of its
\* own paymentId: it short-circuits only on that row's supplier_response
\* and otherwise dispatches holding that row.
C19_BackfillReadsOwnRow ==
  [][\A r \in Reqs : RereadsAfterBackfill(r) =>
       \E row \in RowsByPayment(orders, reqs[r].pid) :
         reqs'[r] = PlaceCheck(r, row)[r]]_vars

\* request r is received
Received(r) == reqs[r].pc = "idle" /\ reqs'[r].pc # "idle"
\* request r makes its pending call on db
CallsStore(r) == AtStoreCall(r) /\ reqs'[r] # reqs[r]

\* C20: no request is received, and no handler makes a call on the order
\* store, before the startup block has opened the database and created the
\* orders table.
C20_NoRequestBeforeReady ==
  [][\A r \in Reqs : (Received(r) \/ CallsStore(r)) => dbReady]_vars

====
